---------------------------- MODULE Spec2Model ----------------------------
(***************************************************************************)
(* A model of the Pi Car Server (src/pi-server): the multi-client MJPEG     *)
(* broadcast engine of camera_stream.py and the motor command engine of    *)
(* car_controller.py with the watchdog and message handlers of server.py.  *)
(*                                                                         *)
(* The two engines share no data.  Spec is the broadcast engine (the       *)
(* capture thread and the stream sessions), SpecCar the motor engine (the  *)
(* control handler, the watchdog timer thread and the clock).              *)
(***************************************************************************)
EXTENDS Integers, Sequences, FiniteSets, TLC

(***************************************************************************)
(* Bounds of the model.                                                    *)
(***************************************************************************)
\* Number of viewers that connect to /video.
MaxSessions == 2
\* Number of iterations the capture loop makes (each captures one image).
MaxCaptures == 2
\* Latest time (tenths of a second) at which a control message is handled;
\* the clock runs on until every watchdog reaction to it has happened.
MaxCmdTime == 20

Sessions == 1..MaxSessions

VARIABLES
    \* ---- CameraStream (camera_stream.py) ----
    is_initialized,   \* the camera was initialized at startup
    is_streaming,     \* the capture loop's running flag
    current_frame,    \* the buffered frame: None or bytes
    frame_counter,    \* the version counter
    frame_lock,       \* holder of frame_lock: "free", "capture" or a session
    client_count,
    next_client_id,
    cap_pc,           \* position of the capture thread
    cap_frame,        \* capture thread locals: frame / jpeg_buffer
    cap_count,        \* images captured so far (names the image content)
    session,          \* per stream session: position and generator locals
    \* ---- CarController (car_controller.py) and its callers (server.py) ----
    GPIO_AVAILABLE,   \* RPi.GPIO could be imported (else simulation mode)
    ENABLE_WATCHDOG,  \* config.ENABLE_WATCHDOG
    now,              \* time.time(), in tenths of a second
    last_command_time,
    pins,             \* level of the four direction pins
    duty,             \* duty cycle of the two PWM channels
    ctl,              \* the socket handler: position, message, mixer locals
    wd_pc,            \* position of the watchdog timer thread
    wd_next,          \* time at which the watchdog Timer fires next
    last_wd_stop      \* time of the latest watchdog stop (its warning log line)

camVars == <<is_initialized, is_streaming, current_frame, frame_counter,
             frame_lock, client_count, next_client_id, cap_pc, cap_frame,
             cap_count, session>>

carVars == <<GPIO_AVAILABLE, ENABLE_WATCHDOG, now, last_command_time, pins, duty,
             ctl, wd_pc, wd_next, last_wd_stop>>

vars == <<camVars, carVars>>

(***************************************************************************)
(* Frame values.  None is Python's None; Bytes(0) is b'' (what             *)
(* _encode_jpeg returns on failure); Bytes(n), n >= 1, is the JPEG of the  *)
(* n-th captured image.                                                    *)
(***************************************************************************)
None == <<"None", 0>>
Bytes(n) == <<"bytes", n>>
\* Python truthiness of `current_frame`: None and b'' are falsy.
Truthy(f) == f[1] = "bytes" /\ f[2] > 0


Free == <<"free", 0>>
CaptureThread == <<"capture", 0>>
SessionThread(s) == <<"session", s>>

\* Generator locals of generate_frames before its first statement has run.
NewSession ==
    [pc |-> "new", client_id |-> 0, last_frame_id |-> -1,
     current_frame |-> None, current_frame_id |-> 0,
     emitted |-> <<>>, placeholders |-> 0]

(***************************************************************************)
(* CameraStream.__init__: with picamera2 present the camera is initialized *)
(* and the capture thread started; without it neither happens.  (A camera  *)
(* that is present but fails to initialize raises out of the constructor   *)
(* and the server exits.)                                                  *)
(***************************************************************************)
InitCamera(available) ==
    /\ is_initialized = available
    /\ is_streaming = is_initialized
    /\ current_frame = None
    /\ frame_counter = 0
    /\ frame_lock = Free
    /\ client_count = 0
    /\ next_client_id = 0
    /\ cap_pc = IF is_initialized THEN "while" ELSE "not_started"
    /\ cap_frame = None
    /\ cap_count = 0
    /\ session = [s \in Sessions |-> NewSession]

(***************************************************************************)
(* The capture thread, CameraStream._capture_frames.                       *)
(***************************************************************************)
\* while self.is_streaming:
CapWhile ==
    /\ cap_pc = "while"
    /\ cap_count < MaxCaptures
    /\ cap_pc' = IF is_streaming THEN "capture" ELSE "stopped"
    /\ UNCHANGED <<carVars, is_initialized, is_streaming, current_frame, frame_counter,
                   frame_lock, client_count, next_client_id, cap_frame,
                   cap_count, session>>

\* frame = self.camera.capture_array(): returns an image, or raises, and then
\* the except clause around the loop logs and the thread ends.
CapCapture ==
    /\ cap_pc = "capture"
    /\ \/ /\ cap_count' = cap_count + 1
          /\ cap_frame' = <<"raw", cap_count + 1>>
          /\ cap_pc' = "encode"
       \/ /\ cap_pc' = "stopped"
          /\ UNCHANGED <<carVars, cap_count, cap_frame>>
    /\ UNCHANGED <<carVars, is_initialized, is_streaming, current_frame, frame_counter,
                   frame_lock, client_count, next_client_id, session>>

\* _encode_jpeg: the JPEG bytes of the image, or b'' when encoding raised.
encode_jpeg(frame, ok) == IF ok THEN Bytes(frame[2]) ELSE Bytes(0)

\* jpeg_buffer = self.encode_jpeg(frame)
CapEncode ==
    /\ cap_pc = "encode"
    /\ \E ok \in BOOLEAN : cap_frame' = encode_jpeg(cap_frame, ok)
    /\ cap_pc' = "lock"
    /\ UNCHANGED <<carVars, is_initialized, is_streaming, current_frame, frame_counter,
                   frame_lock, client_count, next_client_id, cap_count, session>>

\* with self.frame_lock:  (acquire)
CapAcquire ==
    /\ cap_pc = "lock"
    /\ frame_lock = Free
    /\ frame_lock' = CaptureThread
    /\ cap_pc' = "store"
    /\ UNCHANGED <<carVars, is_initialized, is_streaming, current_frame, frame_counter,
                   client_count, next_client_id, cap_frame, cap_count, session>>

\* CapStore as it would be if the store forgot `self.frame_counter += 1`.
CapStoreNoCount ==
    /\ cap_pc = "store"
    /\ current_frame' = cap_frame
    /\ frame_lock' = Free
    /\ cap_pc' = "sleep"
    /\ UNCHANGED <<carVars, is_initialized, is_streaming, frame_counter,
                   client_count, next_client_id, cap_frame, cap_count, session>>

\* CapStore as it would be with the counter incremented in a critical
\* section of its own, before the one that stores the frame.
CapStoreCounterFirst ==
    /\ cap_pc = "store"
    /\ IF frame_counter < cap_count
       THEN /\ frame_counter' = frame_counter + 1
            /\ UNCHANGED <<current_frame, cap_pc>>
       ELSE /\ current_frame' = cap_frame
            /\ cap_pc' = "sleep"
            /\ UNCHANGED frame_counter
    /\ frame_lock' = Free
    /\ UNCHANGED <<carVars, is_initialized, is_streaming, client_count, next_client_id,
                   cap_frame, cap_count, session>>

\* self.current_frame = jpeg_buffer; self.frame_counter += 1  (and release)
CapStore ==
    /\ cap_pc = "store"
    /\ current_frame' = cap_frame
    /\ frame_counter' = frame_counter + 1
    /\ frame_lock' = Free
    /\ cap_pc' = "sleep"
    /\ UNCHANGED <<carVars, is_initialized, is_streaming, client_count, next_client_id,
                   cap_frame, cap_count, session>>

\* time.sleep(sleep_time), then back to the loop test
CapSleep ==
    /\ cap_pc = "sleep"
    /\ cap_pc' = "while"
    /\ UNCHANGED <<carVars, is_initialized, is_streaming, current_frame, frame_counter,
                   frame_lock, client_count, next_client_id, cap_frame,
                   cap_count, session>>

\* CameraStream.stop_streaming, reached from cleanup() when a camera exists.
StopStreaming ==
    /\ is_initialized
    /\ is_streaming
    /\ is_streaming' = FALSE
    /\ UNCHANGED <<carVars, is_initialized, current_frame, frame_counter, frame_lock,
                   client_count, next_client_id, cap_pc, cap_frame, cap_count,
                   session>>


(***************************************************************************)
(* A stream session, the generator CameraStream.generate_frames driven by  *)
(* the /video response.  capUnch is what no session step touches.          *)
(***************************************************************************)
capUnch == <<is_initialized, is_streaming, cap_pc, cap_frame, cap_count>>

\* with self.frame_lock:  (acquire, at any of the generator's three blocks).
\* Sessions are numbered in the order in which they connect.
SessAcquire(s) ==
    /\ session[s].pc \in {"new", "ph_resumed", "poll", "finally"}
    /\ session[s].pc = "new" => \A t \in Sessions : t < s => session[t].pc /= "new"
    /\ frame_lock = Free
    /\ frame_lock' = SessionThread(s)
    /\ session' = [session EXCEPT ![s].pc =
                      CASE session[s].pc = "new" -> "connect"
                        [] session[s].pc = "ph_resumed" -> "ph_dec"
                        [] session[s].pc = "poll" -> "read"
                        [] session[s].pc = "finally" -> "fin_dec"]
    /\ UNCHANGED <<carVars, capUnch, current_frame, frame_counter, client_count,
                   next_client_id>>

\* self.next_client_id += 1; client_id = self.next_client_id;
\* self.client_count += 1  (and release); then `if not self.is_initialized`
\* (a flag that never changes after construction) picks the placeholder path
\* or the polling loop with frame_count = 0, last_frame_id = -1.
SessConnect(s) ==
    /\ session[s].pc = "connect"
    /\ next_client_id' = next_client_id + 1
    /\ client_count' = client_count + 1
    /\ frame_lock' = Free
    /\ session' = [session EXCEPT ![s].pc =
                      IF ~is_initialized THEN "placeholder" ELSE "poll",
                                  ![s].client_id = next_client_id + 1,
                                  ![s].last_frame_id = -1]
    /\ UNCHANGED <<carVars, capUnch, current_frame, frame_counter>>

\* yield self._generate_placeholder_frame(): the generator is suspended at
\* the yield while the response writes the placeholder to the viewer.
SessYieldPlaceholder(s) ==
    /\ session[s].pc = "placeholder"
    /\ session' = [session EXCEPT ![s].pc = "yield_ph",
                                  ![s].placeholders = @ + 1]
    /\ UNCHANGED <<carVars, capUnch, current_frame, frame_counter, frame_lock,
                   client_count, next_client_id>>

\* The response asks for the next chunk: the generator resumes after the
\* placeholder yield, towards `with self.frame_lock: self.client_count -= 1`.
SessResumePlaceholder(s) ==
    /\ session[s].pc = "yield_ph"
    /\ session' = [session EXCEPT ![s].pc = "ph_resumed"]
    /\ UNCHANGED <<carVars, capUnch, current_frame, frame_counter, frame_lock,
                   client_count, next_client_id>>

\* SessPlaceholderDone as it would be without the `return`: the generator
\* falls through into the polling loop.
SessPlaceholderDoneNoReturn(s) ==
    /\ session[s].pc = "ph_dec"
    /\ client_count' = client_count - 1
    /\ frame_lock' = Free
    /\ session' = [session EXCEPT ![s].pc = "poll"]
    /\ UNCHANGED <<carVars, capUnch, current_frame, frame_counter, next_client_id>>

\* with self.frame_lock: self.client_count -= 1; return  (placeholder path)
SessPlaceholderDone(s) ==
    /\ session[s].pc = "ph_dec"
    /\ client_count' = client_count - 1
    /\ frame_lock' = Free
    /\ session' = [session EXCEPT ![s].pc = "done"]
    /\ UNCHANGED <<carVars, capUnch, current_frame, frame_counter, next_client_id>>

\* The viewer goes away while the placeholder is written: the response closes
\* the generator, GeneratorExit is raised at the placeholder yield, which is
\* outside the try/finally, so the generator ends there.
SessClosePlaceholder(s) ==
    /\ session[s].pc = "yield_ph"
    /\ session' = [session EXCEPT ![s].pc = "done"]
    /\ UNCHANGED <<carVars, capUnch, current_frame, frame_counter, frame_lock,
                   client_count, next_client_id>>

\* SessRead as it would be with the yield and the sleep inside the
\* `with self.frame_lock` block: the lock is kept.
SessReadKeepsLock(s) ==
    /\ session[s].pc = "read"
    /\ IF Truthy(current_frame) /\ frame_counter /= session[s].last_frame_id
       THEN session' = [session EXCEPT
                ![s].pc = "yield",
                ![s].current_frame = current_frame,
                ![s].current_frame_id = frame_counter,
                ![s].emitted = Append(@, [version |-> frame_counter,
                                          frame |-> current_frame])]
       ELSE session' = [session EXCEPT
                ![s].pc = "sleep",
                ![s].current_frame = current_frame,
                ![s].current_frame_id = frame_counter]
    /\ UNCHANGED <<carVars, capUnch, current_frame, frame_counter, frame_lock,
                   client_count, next_client_id>>

\* SessRead as it would be if a read that finds no frame sent the
\* placeholder and ended the session.
SessReadPlaceholder(s) ==
    /\ session[s].pc = "read"
    /\ frame_lock' = Free
    /\ IF ~Truthy(current_frame)
       THEN session' = [session EXCEPT
                ![s].pc = "yield_ph",
                ![s].current_frame = current_frame,
                ![s].current_frame_id = frame_counter,
                ![s].placeholders = @ + 1]
       ELSE IF frame_counter /= session[s].last_frame_id
       THEN session' = [session EXCEPT
                ![s].pc = "yield",
                ![s].current_frame = current_frame,
                ![s].current_frame_id = frame_counter,
                ![s].emitted = Append(@, [version |-> frame_counter,
                                          frame |-> current_frame])]
       ELSE session' = [session EXCEPT
                ![s].pc = "sleep",
                ![s].current_frame = current_frame,
                ![s].current_frame_id = frame_counter]
    /\ UNCHANGED <<carVars, capUnch, current_frame, frame_counter, client_count,
                   next_client_id>>

\* SessRead as it would be if a session walked the versions one by one
\* (current_frame_id = last_frame_id + 1) instead of reading the counter.
SessReadNextVersion(s) ==
    /\ session[s].pc = "read"
    /\ frame_lock' = Free
    /\ IF Truthy(current_frame) /\ frame_counter /= session[s].last_frame_id
       THEN session' = [session EXCEPT
                ![s].pc = "yield",
                ![s].current_frame = current_frame,
                ![s].current_frame_id = session[s].last_frame_id + 1,
                ![s].emitted = Append(@, [version |-> session[s].last_frame_id + 1,
                                          frame |-> current_frame])]
       ELSE session' = [session EXCEPT
                ![s].pc = "sleep",
                ![s].current_frame = current_frame,
                ![s].current_frame_id = frame_counter]
    /\ UNCHANGED <<carVars, capUnch, current_frame, frame_counter, client_count,
                   next_client_id>>

\* current_frame = self.current_frame; current_frame_id = self.frame_counter
\* (and release); then, on the locals just read,
\* `if current_frame and current_frame_id != last_frame_id: yield (...)`,
\* else fall through to eventlet.sleep.  `emitted` records what was yielded.
SessRead(s) ==
    /\ session[s].pc = "read"
    /\ frame_lock' = Free
    /\ IF Truthy(current_frame) /\ frame_counter /= session[s].last_frame_id
       THEN session' = [session EXCEPT
                ![s].pc = "yield",
                ![s].current_frame = current_frame,
                ![s].current_frame_id = frame_counter,
                ![s].emitted = Append(@, [version |-> frame_counter,
                                          frame |-> current_frame])]
       ELSE session' = [session EXCEPT
                ![s].pc = "sleep",
                ![s].current_frame = current_frame,
                ![s].current_frame_id = frame_counter]
    /\ UNCHANGED <<carVars, capUnch, current_frame, frame_counter, client_count,
                   next_client_id>>

\* SessResume as it would be without `last_frame_id = current_frame_id`.
SessResumeKeepsLast(s) ==
    /\ session[s].pc = "yield"
    /\ session' = [session EXCEPT ![s].pc = "sleep"]
    /\ UNCHANGED <<carVars, capUnch, current_frame, frame_counter, frame_lock,
                   client_count, next_client_id>>

\* The generator resumes after the frame yield: last_frame_id =
\* current_frame_id; frame_count += 1.
SessResume(s) ==
    /\ session[s].pc = "yield"
    /\ session' = [session EXCEPT ![s].pc = "sleep",
                                  ![s].last_frame_id = session[s].current_frame_id]
    /\ UNCHANGED <<carVars, capUnch, current_frame, frame_counter, frame_lock,
                   client_count, next_client_id>>

\* The viewer disconnects or its connection breaks: the response closes the
\* generator, GeneratorExit is raised at the frame yield and handled by
\* `except GeneratorExit`, then `finally`.
SessClose(s) ==
    /\ session[s].pc = "yield"
    /\ session' = [session EXCEPT ![s].pc = "finally"]
    /\ UNCHANGED <<carVars, capUnch, current_frame, frame_counter, frame_lock,
                   client_count, next_client_id>>

\* eventlet.sleep(frame_time / 2), then the next round of `while True`
SessSleep(s) ==
    /\ session[s].pc = "sleep"
    /\ session' = [session EXCEPT ![s].pc = "poll"]
    /\ UNCHANGED <<carVars, capUnch, current_frame, frame_counter, frame_lock,
                   client_count, next_client_id>>

\* SessFinally as it would be if the last viewer to leave also stopped the
\* capture loop.
SessFinallyStopsCapture(s) ==
    /\ session[s].pc = "fin_dec"
    /\ client_count' = client_count - 1
    /\ is_streaming' = (is_streaming /\ client_count > 1)
    /\ frame_lock' = Free
    /\ session' = [session EXCEPT ![s].pc = "done"]
    /\ UNCHANGED <<carVars, is_initialized, cap_pc, cap_frame, cap_count,
                   current_frame, frame_counter, next_client_id>>

\* finally: with self.frame_lock: self.client_count -= 1
SessFinally(s) ==
    /\ session[s].pc = "fin_dec"
    /\ client_count' = client_count - 1
    /\ frame_lock' = Free
    /\ session' = [session EXCEPT ![s].pc = "done"]
    /\ UNCHANGED <<carVars, capUnch, current_frame, frame_counter, next_client_id>>

SessionStep(s) ==
    \/ SessAcquire(s)
    \/ SessConnect(s)
    \/ SessYieldPlaceholder(s)
    \/ SessResumePlaceholder(s)
    \/ SessPlaceholderDone(s)
    \/ SessClosePlaceholder(s)
    \/ SessRead(s)
    \/ SessResume(s)
    \/ SessClose(s)
    \/ SessSleep(s)
    \/ SessFinally(s)

CaptureStep ==
    \/ CapWhile
    \/ CapCapture
    \/ CapEncode
    \/ CapAcquire
    \/ CapStore
    \/ CapSleep

CameraNext ==
    \/ CaptureStep
    \/ StopStreaming
    \/ \E s \in Sessions : SessionStep(s)

(***************************************************************************)
(* The motor command engine.  Joystick and lever values are in hundredths  *)
(* (One is 1.0), times in tenths of a second.                              *)
(***************************************************************************)
One == 100
JOYSTICK_DEAD_ZONE == 15
MIN_MOTOR_SPEED == 40
MAX_MOTOR_SPEED == 100
AUTO_STOP_TIMEOUT == 20
WATCHDOG_PERIOD == 10
MOTOR_A_INVERTED == FALSE
MOTOR_B_INVERTED == FALSE

\* The clock of the model stops here: late enough for the watchdog to have
\* fired twice after the last message.
MaxTime == MaxCmdTime + AUTO_STOP_TIMEOUT + 2 * WATCHDOG_PERIOD

Abs(v) == IF v < 0 THEN -v ELSE v
\* max(-1.0, min(1.0, v))
Clamp(v) == IF v > One THEN One ELSE IF v < -One THEN -One ELSE v
\* DeadZone as it would be with a threshold of 0.10.
DeadZoneNarrow(v) == IF Abs(v) < 10 THEN 0 ELSE v

\* if abs(v) < config.JOYSTICK_DEAD_ZONE: v = 0.0
DeadZone(v) == IF Abs(v) < JOYSTICK_DEAD_ZONE THEN 0 ELSE v
\* 1 if v > 0 else (-1 if v < 0 else 0)
Direction(v) == IF v > 0 THEN 1 ELSE IF v < 0 THEN -1 ELSE 0

\* CarController._map_speed: int() truncates, and its argument is >= 0.
map_speed(normalized_speed) ==
    IF normalized_speed < JOYSTICK_DEAD_ZONE
    THEN 0
    ELSE MIN_MOTOR_SPEED
         + (normalized_speed * (MAX_MOTOR_SPEED - MIN_MOTOR_SPEED)) \div One

\* What stop() passes to the motors: _set_motor_a(0, 0); _set_motor_b(0, 0).
StopArgs ==
    [left_direction |-> 0, left_pwm |-> 0, right_direction |-> 0, right_pwm |-> 0]

\* MixJoystick as it would be without the clamp of left_speed and
\* right_speed to [-1.0, 1.0].
MixJoystickNoClamp(x0, y0) ==
    LET x == DeadZone(Clamp(x0))
        y == DeadZone(Clamp(y0))
        left_speed == y - x
        right_speed == y + x
    IN  IF x = 0 /\ y = 0
        THEN StopArgs
        ELSE [left_direction |-> Direction(left_speed),
              left_pwm |-> map_speed(Abs(left_speed)),
              right_direction |-> Direction(right_speed),
              right_pwm |-> map_speed(Abs(right_speed))]

\* MixJoystick as it would be with the two sides exchanged
\* (left_speed = y + x, right_speed = y - x).
MixJoystickSwapped(x0, y0) ==
    LET x == DeadZone(Clamp(x0))
        y == DeadZone(Clamp(y0))
        left_speed == Clamp(y + x)
        right_speed == Clamp(y - x)
    IN  IF x = 0 /\ y = 0
        THEN StopArgs
        ELSE [left_direction |-> Direction(left_speed),
              left_pwm |-> map_speed(Abs(left_speed)),
              right_direction |-> Direction(right_speed),
              right_pwm |-> map_speed(Abs(right_speed))]

\* The mixing of process_joystick_input after its time stamp: the arguments
\* it passes to _set_motor_a and _set_motor_b.
MixJoystick(x0, y0) ==
    LET x == DeadZone(Clamp(x0))
        y == DeadZone(Clamp(y0))
        left_speed == Clamp(y - x)
        right_speed == Clamp(y + x)
    IN  IF x = 0 /\ y = 0
        THEN StopArgs
        ELSE [left_direction |-> Direction(left_speed),
              left_pwm |-> map_speed(Abs(left_speed)),
              right_direction |-> Direction(right_speed),
              right_pwm |-> map_speed(Abs(right_speed))]

\* MixDual as it would be with the duty mapped from the signed value
\* instead of its magnitude.
MixDualNoAbs(left0, right0) ==
    LET left == DeadZone(Clamp(left0))
        right == DeadZone(Clamp(right0))
    IN  IF left = 0 /\ right = 0
        THEN StopArgs
        ELSE [left_direction |-> Direction(left),
              left_pwm |-> map_speed(left),
              right_direction |-> Direction(right),
              right_pwm |-> map_speed(right)]

\* MixDual as it would be with `or` for `and` in its stop test: one lever in
\* the dead zone stops both motors.
MixDualStopOnEither(left0, right0) ==
    LET left == DeadZone(Clamp(left0))
        right == DeadZone(Clamp(right0))
    IN  IF left = 0 \/ right = 0
        THEN StopArgs
        ELSE [left_direction |-> Direction(left),
              left_pwm |-> map_speed(Abs(left)),
              right_direction |-> Direction(right),
              right_pwm |-> map_speed(Abs(right))]

\* The same for process_dual_input.
MixDual(left0, right0) ==
    LET left == DeadZone(Clamp(left0))
        right == DeadZone(Clamp(right0))
    IN  IF left = 0 /\ right = 0
        THEN StopArgs
        ELSE [left_direction |-> Direction(left),
              left_pwm |-> map_speed(Abs(left)),
              right_direction |-> Direction(right),
              right_pwm |-> map_speed(Abs(right))]

(***************************************************************************)
(* The Motor Driver.  A call of _set_motor_a makes three GPIO writes: pin  *)
(* 1, pin 2, the PWM duty cycle; `at` says which one is next.  Without     *)
(* RPi.GPIO the call returns at once.                                      *)
(***************************************************************************)
Level(high) == IF high THEN "HIGH" ELSE "LOW"

\* set_motor_a as it would be if its Stop branch drove pin 1 HIGH (only
\* Backward driving it LOW).
set_motor_aStopHigh(at, direction0, speed) ==
    LET direction == IF MOTOR_A_INVERTED THEN -direction0 ELSE direction0
    IN  CASE ~GPIO_AVAILABLE -> UNCHANGED <<pins, duty>>
          [] at = "A1" -> /\ pins' = [pins EXCEPT !.A1 = Level(direction /= -1)]
                          /\ UNCHANGED duty
          [] at = "A2" -> /\ pins' = [pins EXCEPT !.A2 = Level(direction = -1)]
                          /\ UNCHANGED duty
          [] at = "Apwm" -> /\ duty' = [duty EXCEPT !.A =
                                           IF direction /= 0 THEN speed ELSE 0]
                            /\ UNCHANGED pins

set_motor_a(at, direction0, speed) ==
    LET direction == IF MOTOR_A_INVERTED THEN -direction0 ELSE direction0
    IN  CASE ~GPIO_AVAILABLE -> UNCHANGED <<pins, duty>>
          [] at = "A1" -> /\ pins' = [pins EXCEPT !.A1 = Level(direction = 1)]
                          /\ UNCHANGED duty
          [] at = "A2" -> /\ pins' = [pins EXCEPT !.A2 = Level(direction = -1)]
                          /\ UNCHANGED duty
          [] at = "Apwm" -> /\ duty' = [duty EXCEPT !.A =
                                           IF direction /= 0 THEN speed ELSE 0]
                            /\ UNCHANGED pins

set_motor_b(at, direction0, speed) ==
    LET direction == IF MOTOR_B_INVERTED THEN -direction0 ELSE direction0
    IN  CASE ~GPIO_AVAILABLE -> UNCHANGED <<pins, duty>>
          [] at = "B1" -> /\ pins' = [pins EXCEPT !.B1 = Level(direction = 1)]
                          /\ UNCHANGED duty
          [] at = "B2" -> /\ pins' = [pins EXCEPT !.B2 = Level(direction = -1)]
                          /\ UNCHANGED duty
          [] at = "Bpwm" -> /\ duty' = [duty EXCEPT !.B =
                                           IF direction /= 0 THEN speed ELSE 0]
                            /\ UNCHANGED pins

\* One GPIO write of `_set_motor_a(...); _set_motor_b(...)` with arguments m.
SetMotors(at, m) ==
    IF at \in {"A1", "A2", "Apwm"}
    THEN set_motor_a(at, m.left_direction, m.left_pwm)
    ELSE set_motor_b(at, m.right_direction, m.right_pwm)

\* The position after the write at `at`; "idle" when both calls have returned.
After(at) ==
    IF ~GPIO_AVAILABLE
    THEN IF at = "A1" THEN "B1" ELSE "idle"
    ELSE CASE at = "A1" -> "A2"
           [] at = "A2" -> "Apwm"
           [] at = "Apwm" -> "B1"
           [] at = "B1" -> "B2"
           [] at = "B2" -> "Bpwm"
           [] at = "Bpwm" -> "idle"

(***************************************************************************)
(* The socket handlers of server.py.  They run on the eventlet loop, one   *)
(* at a time; `ctl` holds the running handler's message, the arguments its *)
(* mixer computed and the GPIO write it is at.                             *)
(***************************************************************************)
\* since_previous notes, for an accepted command, how long after the
\* previous time stamp it came.
IdleCtl ==
    [pc |-> "idle", type |-> "none", a |-> 0, b |-> 0, args |-> StopArgs,
     since_previous |-> 0]

\* process_joystick_input as it would be with the time stamp taken after
\* the dead-zone return instead of first.
process_joystick_inputLateStamp(x, y) ==
    /\ last_command_time' =
           IF MixJoystick(x, y) = StopArgs THEN last_command_time ELSE now
    /\ ctl' = [pc |-> "A1", type |-> "control", a |-> x, b |-> y,
               args |-> MixJoystick(x, y),
               since_previous |-> now - last_command_time]

\* CarController.process_joystick_input up to its first motor call.
process_joystick_input(x, y) ==
    /\ last_command_time' = now
    /\ ctl' = [pc |-> "A1", type |-> "control", a |-> x, b |-> y,
               args |-> MixJoystick(x, y),
               since_previous |-> now - last_command_time]

\* CarController.process_dual_input up to its first motor call.
process_dual_input(left, right) ==
    /\ last_command_time' = now
    /\ ctl' = [pc |-> "A1", type |-> "dual", a |-> left, b |-> right,
               args |-> MixDual(left, right),
               since_previous |-> now - last_command_time]

\* -1.0 <= v <= 1.0
InRange(v) == -One <= v /\ v <= One

\* handle_control(data) for a message of type m.type carrying the two values
\* m.a, m.b (x, y or left, right).  A message it drops changes nothing.
handle_control(m) ==
    /\ ctl.pc = "idle"
    /\ CASE m.type = "dual" -> process_dual_input(m.a, m.b)
         [] m.type = "control" /\ InRange(m.a) /\ InRange(m.b) ->
                process_joystick_input(m.a, m.b)
         [] OTHER -> UNCHANGED <<last_command_time, ctl>>
    /\ UNCHANGED <<camVars, GPIO_AVAILABLE, ENABLE_WATCHDOG, now, pins, duty, wd_pc,
                   wd_next, last_wd_stop>>

\* handle_disconnect as it would be if its stop took a time stamp like a
\* command.
handle_disconnectStamps ==
    /\ ctl.pc = "idle"
    /\ ctl' = [pc |-> "A1", type |-> "disconnect", a |-> 0, b |-> 0,
               args |-> StopArgs, since_previous |-> 0]
    /\ last_command_time' = now
    /\ UNCHANGED <<camVars, GPIO_AVAILABLE, ENABLE_WATCHDOG, now, pins,
                   duty, wd_pc, wd_next, last_wd_stop>>

\* handle_disconnect: car.stop(), up to its first motor call.
handle_disconnect ==
    /\ ctl.pc = "idle"
    /\ ctl' = [pc |-> "A1", type |-> "disconnect", a |-> 0, b |-> 0,
               args |-> StopArgs, since_previous |-> 0]
    /\ UNCHANGED <<camVars, GPIO_AVAILABLE, ENABLE_WATCHDOG, now, last_command_time, pins,
                   duty, wd_pc, wd_next, last_wd_stop>>

\* The running handler makes its next GPIO write; after the last one it
\* returns.
CtlStep ==
    /\ ctl.pc /= "idle"
    /\ SetMotors(ctl.pc, ctl.args)
    /\ ctl' = [ctl EXCEPT !.pc = After(ctl.pc)]
    /\ UNCHANGED <<camVars, GPIO_AVAILABLE, ENABLE_WATCHDOG, now, last_command_time,
                   wd_pc, wd_next, last_wd_stop>>

(***************************************************************************)
(* The watchdog: a threading.Timer thread that runs watchdog_timer every   *)
(* second, beside the handlers.                                            *)
(***************************************************************************)
\* check_watchdog as it would be with a timeout read in another unit.
check_watchdogWrongUnit ==
    /\ IF ENABLE_WATCHDOG /\ now - last_command_time > AUTO_STOP_TIMEOUT * 10
       THEN /\ wd_pc' = "A1"
            /\ last_wd_stop' = now
       ELSE UNCHANGED <<wd_pc, last_wd_stop>>
    /\ UNCHANGED last_command_time

\* check_watchdog as it would be with `>=` for `>`.
check_watchdogAtTimeout ==
    /\ IF ENABLE_WATCHDOG /\ now - last_command_time >= AUTO_STOP_TIMEOUT
       THEN /\ wd_pc' = "A1"
            /\ last_wd_stop' = now
       ELSE UNCHANGED <<wd_pc, last_wd_stop>>
    /\ UNCHANGED last_command_time

\* CarController.check_watchdog up to the first motor call of its stop().
check_watchdog ==
    /\ IF ENABLE_WATCHDOG /\ now - last_command_time > AUTO_STOP_TIMEOUT
       THEN /\ wd_pc' = "A1"
            /\ last_wd_stop' = now
       ELSE UNCHANGED <<wd_pc, last_wd_stop>>
    /\ UNCHANGED last_command_time

\* watchdog_timer, started by main() when the watchdog is enabled; it
\* schedules its next run one period on.
watchdog_timer ==
    /\ ENABLE_WATCHDOG
    /\ wd_pc = "idle"
    /\ now = wd_next
    /\ check_watchdog
    /\ wd_next' = now + WATCHDOG_PERIOD
    /\ UNCHANGED <<camVars, GPIO_AVAILABLE, ENABLE_WATCHDOG, now, pins, duty, ctl>>

\* The watchdog's stop() makes its next GPIO write.
WdStep ==
    /\ wd_pc /= "idle"
    /\ SetMotors(wd_pc, StopArgs)
    /\ wd_pc' = After(wd_pc)
    /\ UNCHANGED <<camVars, GPIO_AVAILABLE, ENABLE_WATCHDOG, now, last_command_time, ctl,
                   wd_next, last_wd_stop>>

\* A tenth of a second passes.  Handlers take no time at this resolution,
\* and the timer fires when it is due.
Advance ==
    /\ ctl.pc = "idle"
    /\ wd_pc = "idle"
    /\ now < MaxTime
    /\ ENABLE_WATCHDOG => now < wd_next
    /\ now' = now + 1
    /\ UNCHANGED <<camVars, GPIO_AVAILABLE, ENABLE_WATCHDOG, last_command_time, pins, duty,
                   ctl, wd_pc, wd_next, last_wd_stop>>

\* CarController.__init__ and main(): the time stamp is taken, the motors
\* are stopped, the watchdog timer is started.
InitCar(gpio, watchdog) ==
    /\ GPIO_AVAILABLE = gpio
    /\ ENABLE_WATCHDOG = watchdog
    /\ now = 0
    /\ last_command_time = 0
    /\ pins = [A1 |-> "LOW", A2 |-> "LOW", B1 |-> "LOW", B2 |-> "LOW"]
    /\ duty = [A |-> 0, B |-> 0]
    /\ ctl = IdleCtl
    /\ wd_pc = "idle"
    /\ wd_next = 0
    /\ last_wd_stop = -1

(***************************************************************************)
(* Messages.  CarVals holds a value in the dead zone, a driving value and  *)
(* a value out of range; MixVals is the grid the mixer is checked on.      *)
(***************************************************************************)
CarVals == {0, 80, 150}
MixVals == {-150, -100, -90, -80, -70, -60, -50, -40, -30, -20, -15, -14, -10,
            -5, 0, 5, 10, 14, 15, 16, 20, 30, 40, 50, 60, 70, 80, 90, 100, 150}
Messages(vals) == [type : {"control", "dual", "other"}, a : vals, b : vals]

(***************************************************************************)
(* Specifications.                                                         *)
(***************************************************************************)
\* The broadcast engine.
Init == (\E available \in BOOLEAN : InitCamera(available)) /\ InitCar(TRUE, TRUE)

Next == CameraNext

Spec == Init /\ [][Next]_vars

\* The steps a stream session takes by itself, as long as its viewer keeps
\* reading: every step of generate_frames but the closes, which are the
\* viewer's doing.
SessionRun(s) ==
    \/ SessAcquire(s)
    \/ SessConnect(s)
    \/ SessYieldPlaceholder(s)
    \/ SessResumePlaceholder(s)
    \/ SessPlaceholderDone(s)
    \/ SessRead(s)
    \/ SessResume(s)
    \/ SessSleep(s)
    \/ SessFinally(s)

\* The broadcast engine with its scheduling: the capture thread runs, and
\* the eventlet loop runs every session that is ready; no viewer has to
\* disconnect.
SpecLive ==
    /\ Init
    /\ [][Next]_vars
    /\ WF_vars(CaptureStep)
    /\ \A s \in Sessions : WF_vars(SessionRun(s))

\* The motor engine with its clock and watchdog.
InitCarEngine ==
    /\ InitCamera(TRUE)
    /\ \E gpio \in BOOLEAN, watchdog \in BOOLEAN : InitCar(gpio, watchdog)

CarHandle ==
    /\ ctl.pc = "idle"
    /\ now <= MaxCmdTime
    /\ \E m \in Messages(CarVals) : handle_control(m)

CarNext ==
    \/ CarHandle
    \/ handle_disconnect
    \/ CtlStep
    \/ watchdog_timer
    \/ WdStep
    \/ Advance

SpecCar == InitCarEngine /\ [][CarNext]_vars

\* The motor engine when the client is silent after startup and sends its
\* messages late: in the second before the first run of the watchdog timer
\* that finds the timeout exceeded, and at that run.
LateHandle ==
    /\ ctl.pc = "idle"
    /\ now >= AUTO_STOP_TIMEOUT
    /\ now <= AUTO_STOP_TIMEOUT + WATCHDOG_PERIOD
    /\ \E m \in Messages(CarVals) : handle_control(m)

LateNext ==
    \/ LateHandle
    \/ handle_disconnect
    \/ CtlStep
    \/ watchdog_timer
    \/ WdStep
    \/ Advance

SpecLate == InitCarEngine /\ [][LateNext]_vars

\* The mixer alone, on the grid.
InitMix == InitCamera(TRUE) /\ \E gpio \in BOOLEAN : InitCar(gpio, TRUE)

\* A message of the grid arrives at a controller that is fresh or that is
\* driving full ahead after dual (1.0, 1.0).
MixHandle ==
    /\ ctl.pc = "idle"
    /\ \/ ctl.type = "none"
       \/ ctl.type = "dual" /\ ctl.a = One /\ ctl.b = One
    /\ \E m \in Messages(MixVals) : handle_control(m)

MixNext ==
    \/ MixHandle
    \/ CtlStep

SpecMix == InitMix /\ [][MixNext]_vars

(***************************************************************************)
(* Properties of the broadcast engine (checked under Spec).                *)
(***************************************************************************)
Versions(s) == [i \in 1..Len(session[s].emitted) |-> session[s].emitted[i].version]

\* C1: the versions one stream session emits are strictly increasing: none
\* is emitted twice and none after a higher one, whatever the interleaving
\* of its polls with the capture loop's publishes.
C1_EmitStrictlyIncreasing ==
    \A s \in Sessions :
        \A i, j \in 1..Len(session[s].emitted) :
            i < j => Versions(s)[i] < Versions(s)[j]

\* A session has emitted two frames, with a publish in between.
C1_Witness ==
    \E s \in Sessions : Len(session[s].emitted) >= 2

\* C4: the version counter starts at 0, a publish (the locked store of the
\* capture loop) adds exactly 1 to it, and no other step changes it, so it
\* never decreases.
C4_VersionCounter ==
    /\ frame_counter = 0
    /\ [][IF cap_pc = "store" /\ cap_pc' = "sleep"
          THEN frame_counter' = frame_counter + 1
          ELSE frame_counter' = frame_counter]_vars

\* Two publishes have happened.
C4_Witness ==
    frame_counter = 2 /\ cap_pc = "sleep"

\* How far a session is on the placeholder path of generate_frames.
PlaceholderRank(pc) ==
    CASE pc = "new" -> 0
      [] pc = "connect" -> 1
      [] pc = "placeholder" -> 2
      [] pc = "yield_ph" -> 3
      [] pc = "ph_resumed" -> 4
      [] pc = "ph_dec" -> 5
      [] OTHER -> 6

NoCameraState ==
    ~is_initialized =>
        /\ cap_pc = "not_started"
        /\ ~is_streaming
        /\ current_frame = None
        /\ frame_counter = 0
        /\ \A s \in Sessions :
            /\ session[s].emitted = <<>>
            /\ session[s].pc \in {"new", "connect", "placeholder", "yield_ph",
                                  "ph_resumed", "ph_dec", "done"}
            /\ session[s].placeholders =
                   IF session[s].pc \in {"new", "connect", "placeholder"}
                   THEN 0 ELSE 1
        /\ (\E s \in Sessions : session[s].pc \notin {"new", "done"})
               => ENABLED (\E t \in Sessions : SessionStep(t))

\* C5: with no camera at startup the capture loop is never started, the
\* buffer stays empty and the counter 0; a session that connects emits the
\* placeholder exactly once and never a frame, and it terminates: it never
\* enters the polling loop, each of its steps takes it nearer to its end, and
\* while a connected session has not ended some session can take a step.
C5_CameraUnavailable ==
    /\ []NoCameraState
    /\ [][~is_initialized =>
            \A s \in Sessions :
                session'[s] /= session[s] =>
                    PlaceholderRank(session'[s].pc) > PlaceholderRank(session[s].pc)]_vars

\* Without a camera, every session has connected, emitted its placeholder
\* and ended.
C5_Witness ==
    /\ ~is_initialized
    /\ \A s \in Sessions :
        session[s].pc = "done" /\ session[s].placeholders = 1

\* C11: an iteration of the capture loop whose encoding failed (its
\* jpeg_buffer is b'') publishes nothing: the buffered frame and the version
\* counter stay as they are, so the buffer never holds the empty frame.
C11_EncoderFailureSkipsPublish ==
    /\ [](current_frame /= Bytes(0))
    /\ [][(cap_pc = "store" /\ cap_frame = Bytes(0))
             => (current_frame' = current_frame
                 /\ frame_counter' = frame_counter)]_vars

\* C12: a capture that raises ends only its own iteration: the capture
\* thread ends only when it has been told to stop.
C12_CaptureFailureSkipsIteration ==
    cap_pc = "stopped" => ~is_streaming

\* C13: what a session emits is the buffer's latest version at its read:
\* it appends to what it has emitted exactly the buffered frame with the
\* counter's value, whatever it saw last, so versions published while it was
\* suspended are skipped; and it holds no queue, the one frame it is writing
\* is the one it emitted last.
C13_MostRecentWins ==
    /\ [][\A s \in Sessions :
            session'[s].emitted /= session[s].emitted =>
                /\ session[s].pc = "read"
                /\ frame_counter' = frame_counter
                /\ session'[s].emitted =
                       Append(session[s].emitted,
                              [version |-> frame_counter,
                               frame |-> current_frame])]_vars
    /\ [](\A s \in Sessions :
            session[s].pc = "yield" =>
                /\ session[s].emitted /= <<>>
                /\ session[s].emitted[Len(session[s].emitted)] =
                       [version |-> session[s].current_frame_id,
                        frame |-> session[s].current_frame]
                /\ session[s].current_frame_id <= frame_counter)

\* Versions 1 and 2 were published with good frames (one session emitted
\* both); another session emitted version 2 first and only, never version 1.
C13_Witness ==
    \E s, t \in Sessions :
        /\ Versions(t) = <<1, 2>>
        /\ session[t].emitted[1].frame = Bytes(1)
        /\ session[s].emitted = <<[version |-> 2, frame |-> Bytes(2)]>>
        /\ session[s].last_frame_id = 2

\* C14: once stop_streaming has returned (the running flag is cleared) no
\* publish occurs: no step changes the buffered frame or the version
\* counter, wherever the capture thread was in its iteration.
C14_NoPublishAfterStop ==
    [][(is_initialized /\ ~is_streaming)
          => (current_frame' = current_frame
              /\ frame_counter' = frame_counter)]_vars

\* C15: a step that ends a session (the close at its yield, its finally
\* clause, its return) leaves the buffered frame, the version counter, the
\* running flag, the capture thread and every other session as they are;
\* and the step that stops the capture loop changes no session and no
\* client_count.
C15_CancellationIsolated ==
    /\ [][\A s \in Sessions :
            (session'[s] /= session[s]
                 /\ session'[s].pc \in {"finally", "fin_dec", "done"})
            => /\ current_frame' = current_frame
               /\ frame_counter' = frame_counter
               /\ is_streaming' = is_streaming
               /\ <<cap_pc, cap_frame, cap_count>>' = <<cap_pc, cap_frame, cap_count>>
               /\ \A t \in Sessions \ {s} : session'[t] = session[t]]_vars
    /\ [][is_streaming' /= is_streaming
            => (session' = session /\ client_count' = client_count)]_vars

\* One session has disconnected and ended; the capture loop has been told to
\* stop; the other session, which saw version 1 before, is still connected
\* and is emitting the last buffered frame, version 2.
C15_Witness ==
    \E s, t \in Sessions :
        /\ session[s].pc = "done" /\ session[s].emitted /= <<>>
        /\ ~is_streaming /\ is_initialized
        /\ client_count = 1
        /\ session[t].pc = "yield"
        /\ session[t].last_frame_id = 1
        /\ session[t].current_frame_id = 2
        /\ frame_counter = 2

\* The number of sessions that have registered and not ended.
ConnectedSessions ==
    {s \in Sessions : session[s].pc \notin {"new", "connect", "done"}}

\* C16: on every path client_count is the number of sessions that have
\* connected and not yet terminated, and it is never negative.
C16_ClientCountExact ==
    /\ client_count = Cardinality(ConnectedSessions)
    /\ client_count >= 0

\* C21: when shutdown is signalled (cleanup has stopped the capture loop),
\* every session that is running eventually terminates by itself, without
\* its viewer disconnecting.
C21_ShutdownEndsSessions ==
    \A s \in Sessions :
        (is_initialized /\ ~is_streaming /\ session[s].pc \notin {"new", "done"})
            ~> (session[s].pc = "done")

\* Frame f is what a publish stored together with version v: publish
\* number v stores the jpeg_buffer of capture number v (its JPEG, or b''
\* when the encoder failed); version 0 is the empty buffer.
StoredTogether(f, v) ==
    IF v = 0 THEN f = None ELSE f \in {Bytes(v), Bytes(0)}

\* C22: every (frame, version) pair a session has read, and every pair it
\* has emitted, is a pair one publish stored together, whatever the
\* interleaving of the capture thread with the sessions.
C22_ReadPairStoredTogether ==
    /\ frame_counter <= cap_count
    /\ cap_pc = "store" => cap_frame \in {Bytes(cap_count), Bytes(0)}
    /\ \A s \in Sessions :
        /\ StoredTogether(session[s].current_frame, session[s].current_frame_id)
        /\ \A i \in 1..Len(session[s].emitted) :
               session[s].emitted[i].frame = Bytes(session[s].emitted[i].version)

\* A session has just read version 2 while holding the lock the capture
\* thread released after its second publish, having emitted version 1
\* before; the other session is still writing version 1 to its viewer.
C22_Witness ==
    \E s, t \in Sessions :
        /\ session[s].pc = "yield"
        /\ session[s].emitted = <<[version |-> 1, frame |-> Bytes(1)],
                                  [version |-> 2, frame |-> Bytes(2)]>>
        /\ session[t].pc = "yield"
        /\ session[t].current_frame_id = 1
        /\ session[t].current_frame = Bytes(1)

\* C23 as claimed: a session whose read of the buffer finds no frame
\* (nothing published yet) emits the placeholder and does not wait and poll
\* again.
C23_NoFrameEmitsPlaceholder ==
    [][\A s \in Sessions :
         (session[s].pc = "read" /\ current_frame = None
              /\ session'[s] /= session[s])
         => /\ session'[s].placeholders = session[s].placeholders + 1
            /\ session'[s].pc /= "sleep"]_vars

\* C23 as amended: the placeholder is emitted, once, only when the camera is
\* unavailable; a session of an initialized camera whose read finds no frame
\* (nothing published yet, or an empty frame) emits nothing, sleeps and
\* polls again.
C23_NoFrameWaitsAndPolls ==
    /\ [](\A s \in Sessions :
            /\ session[s].placeholders <= 1
            /\ session[s].placeholders = 1 => ~is_initialized)
    /\ [][\A s \in Sessions :
            (session[s].pc = "read" /\ ~Truthy(current_frame)
                 /\ session'[s] /= session[s])
            => /\ is_initialized
               /\ session'[s].pc = "sleep"
               /\ session'[s].emitted = session[s].emitted
               /\ session'[s].placeholders = session[s].placeholders]_vars
    /\ [][\A s \in Sessions :
            (session[s].pc = "sleep" /\ session'[s] /= session[s])
            => session'[s].pc = "poll"]_vars

\* With the camera initialized, a session that found the buffer empty
\* before the first publish is waiting to poll again, and no placeholder
\* was sent; the first frame has been published since.
C23_Witness ==
    \E s \in Sessions :
        /\ is_initialized
        /\ session[s].pc = "sleep"
        /\ session[s].current_frame = None
        /\ session[s].emitted = <<>>
        /\ session[s].placeholders = 0
        /\ current_frame = Bytes(1)

\* C24: a session holds frame_lock only inside its three short `with`
\* blocks, never while it is suspended at a yield or in eventlet.sleep; so
\* when every session is suspended or ended the lock is free or the capture
\* thread's, and a capture thread waiting to publish can take it.
C24_NoLockWhileSuspended ==
    /\ \A s \in Sessions :
           frame_lock = SessionThread(s)
               => session[s].pc \in {"connect", "ph_dec", "read", "fin_dec"}
    /\ (cap_pc = "lock"
          /\ \A s \in Sessions :
                session[s].pc \in {"new", "yield", "yield_ph", "sleep", "done"})
           => ENABLED CapAcquire

\* The capture thread is publishing (it holds the lock) while one session
\* is writing a frame to its viewer and the other one sleeps.
C24_Witness ==
    \E s, t \in Sessions :
        /\ cap_pc = "store" /\ frame_lock = CaptureThread
        /\ session[s].pc = "yield"
        /\ session[t].pc = "sleep"

(***************************************************************************)
(* Properties of the motor engine (checked under SpecCar and SpecMix).     *)
(***************************************************************************)
\* Both motors are stopped: all direction pins LOW, both duty cycles 0.
MotorsStopped ==
    /\ pins = [A1 |-> "LOW", A2 |-> "LOW", B1 |-> "LOW", B2 |-> "LOW"]
    /\ duty = [A |-> 0, B |-> 0]

\* The time at which watchdog_timer ran last.
LastTick == wd_next - WATCHDOG_PERIOD

\* The running or latest handler is an accepted control command.
Accepted == ctl.type \in {"control", "dual"}

\* C2: with the watchdog enabled, the timer is never overdue, and once it
\* has run at a time more than AUTO_STOP_TIMEOUT after the last accepted
\* command (the first such run is at most a period after the timeout), the
\* watchdog has issued a Stop at that run and both motors are stopped.
C2_WatchdogStops ==
    ENABLE_WATCHDOG =>
        /\ now <= wd_next
        /\ wd_next <= now + WATCHDOG_PERIOD
        /\ (ctl.pc = "idle" /\ wd_pc = "idle"
                /\ LastTick - last_command_time > AUTO_STOP_TIMEOUT)
               => (last_wd_stop = LastTick /\ MotorsStopped)

\* A driving joystick command was accepted, and the first timer run past
\* its timeout has stopped the motors.
C2_Witness ==
    /\ GPIO_AVAILABLE /\ ENABLE_WATCHDOG
    /\ ctl.type = "control" /\ ctl.args.left_pwm > 0 /\ ctl.pc = "idle"
    /\ wd_pc = "idle"
    /\ last_command_time > 0
    /\ last_wd_stop = LastTick
    /\ last_wd_stop - last_command_time > AUTO_STOP_TIMEOUT
    /\ last_wd_stop - last_command_time <= AUTO_STOP_TIMEOUT + WATCHDOG_PERIOD
    /\ MotorsStopped

\* C3: the watchdog issues a Stop only when it is enabled and, at that run of
\* the timer, now - last_command_time > AUTO_STOP_TIMEOUT (strictly); so a
\* Stop that came after the last command came more than the timeout after
\* it, and a command restarts the window.
C3_WatchdogOnlyAfterTimeout ==
    /\ [](last_wd_stop > last_command_time
             => last_wd_stop - last_command_time > AUTO_STOP_TIMEOUT)
    /\ [][(wd_pc = "idle" /\ wd_pc' /= "idle")
             => (ENABLE_WATCHDOG
                 /\ now - last_command_time > AUTO_STOP_TIMEOUT)]_vars

\* A driving command came 1.9 s after the previous command; the timer has
\* run past the previous command's 2.0 s mark and issued no Stop, and the
\* motor is still driven.
C3_Witness ==
    /\ GPIO_AVAILABLE /\ ENABLE_WATCHDOG
    /\ ctl.type = "control" /\ ctl.args.left_pwm > 0 /\ ctl.pc = "idle"
    /\ wd_pc = "idle"
    /\ ctl.since_previous = AUTO_STOP_TIMEOUT - 1
    /\ last_command_time - ctl.since_previous > 0
    /\ LastTick >= last_command_time
    /\ LastTick - (last_command_time - ctl.since_previous) > AUTO_STOP_TIMEOUT
    /\ last_wd_stop < last_command_time - ctl.since_previous
    /\ pins.A1 = "HIGH" /\ duty.A = ctl.args.left_pwm

\* C6: a joystick input with |x| and |y| both below the dead zone makes the
\* handler pass (0, 0) to both motors, and when it returns all direction
\* pins are LOW and both duty cycles 0.
C6_DeadZoneStops ==
    (ctl.type = "control" /\ Abs(ctl.a) < JOYSTICK_DEAD_ZONE
         /\ Abs(ctl.b) < JOYSTICK_DEAD_ZONE)
        => /\ ctl.args = StopArgs
           /\ ctl.pc = "idle" => MotorsStopped

\* The input (0.14, -0.14) is stopping a car that drove full ahead: motor A
\* is stopped, motor B has its pins LOW and its duty cycle yet to be cleared.
C6_Witness ==
    /\ GPIO_AVAILABLE
    /\ ctl.type = "control" /\ ctl.a = 14 /\ ctl.b = -14
    /\ ctl.pc = "Bpwm"
    /\ pins = [A1 |-> "LOW", A2 |-> "LOW", B1 |-> "LOW", B2 |-> "LOW"]
    /\ duty = [A |-> 0, B |-> MAX_MOTOR_SPEED]

DutyInRange(d) == d = 0 \/ (MIN_MOTOR_SPEED <= d /\ d <= MAX_MOTOR_SPEED)

\* C7: for an accepted joystick input (x and y in [-1, 1]) each duty cycle
\* passed to the motors is 0 or lies in [MIN_MOTOR_SPEED, MAX_MOTOR_SPEED].
C7_DutyRange ==
    ctl.type = "control"
        => /\ DutyInRange(ctl.args.left_pwm)
           /\ DutyInRange(ctl.args.right_pwm)
           /\ DutyInRange(duty.A)
           /\ DutyInRange(duty.B)

\* The input (1.0, 1.0), whose y + x = 2.0 is clamped: right at full duty,
\* left stopped.
C7_Witness ==
    /\ GPIO_AVAILABLE
    /\ ctl.type = "control" /\ ctl.a = One /\ ctl.b = One /\ ctl.pc = "idle"
    /\ ctl.args.left_pwm = 0 /\ ctl.args.right_pwm = MAX_MOTOR_SPEED
    /\ duty = [A |-> 0, B |-> MAX_MOTOR_SPEED]

\* C8: a message whose values lie outside [-1, 1] is rejected without side
\* effect, for "control" and for "dual": the handler does not take it up, so
\* last_command_time keeps its value and no motor call follows.
C8_OutOfRangeRejected ==
    [][(ctl.pc = "idle" /\ ctl' /= ctl /\ ctl'.type \in {"control", "dual"}
            /\ ~(InRange(ctl'.a) /\ InRange(ctl'.b)))
          => (ctl'.pc = "idle" /\ last_command_time' = last_command_time)]_vars

\* C9: during every accepted call of process_joystick_input or
\* process_dual_input, from its first statement to its return,
\* last_command_time is the current time, also when the call stops the
\* motors.
C9_AcceptedStampsTime ==
    (Accepted /\ ctl.pc /= "idle") => last_command_time = now

\* A joystick input in the dead zone is being handled, some time after the
\* previous time stamp.
C9_Witness ==
    /\ ctl.type = "control" /\ ctl.args = StopArgs /\ ctl.pc = "Bpwm"
    /\ ctl.since_previous > 0
    /\ last_command_time = now

\* C10: a Stop issued by the watchdog refreshes last_command_time, so the
\* watchdog issues a Stop on at most one timer run per period of silence: it
\* issues none when it has issued one since the last command.
C10_SingleStopPerSilence ==
    [][(wd_pc = "idle" /\ wd_pc' /= "idle")
          => ~(last_wd_stop > last_command_time)]_vars

\* The direction pins and duty cycles of a motor pair driven with
\* direction d (1 Forward, -1 Backward) at duty cycle p on both motors.
BothDriven(d, p) ==
    /\ pins = [A1 |-> Level(d = 1), A2 |-> Level(d = -1),
               B1 |-> Level(d = 1), B2 |-> Level(d = -1)]
    /\ duty = [A |-> p, B |-> p]

\* C17: with no inversion, dual (1.0, 1.0) passes Forward at MAX_MOTOR_SPEED
\* to both motors and dual (-1.0, -1.0) Backward at MAX_MOTOR_SPEED, and
\* when the call has returned the pins and duty cycles are those.
C17_DualFullSpeed ==
    /\ (ctl.type = "dual" /\ ctl.a = One /\ ctl.b = One)
        => /\ ctl.args = [left_direction |-> 1, left_pwm |-> MAX_MOTOR_SPEED,
                          right_direction |-> 1, right_pwm |-> MAX_MOTOR_SPEED]
           /\ (ctl.pc = "idle" /\ GPIO_AVAILABLE)
                  => BothDriven(1, MAX_MOTOR_SPEED)
    /\ (ctl.type = "dual" /\ ctl.a = -One /\ ctl.b = -One)
        => /\ ctl.args = [left_direction |-> -1, left_pwm |-> MAX_MOTOR_SPEED,
                          right_direction |-> -1, right_pwm |-> MAX_MOTOR_SPEED]
           /\ (ctl.pc = "idle" /\ GPIO_AVAILABLE)
                  => BothDriven(-1, MAX_MOTOR_SPEED)

\* Dual (-1.0, -1.0) has reversed a car that drove full ahead.
C17_Witness ==
    /\ GPIO_AVAILABLE
    /\ ctl.type = "dual" /\ ctl.a = -One /\ ctl.b = -One /\ ctl.pc = "idle"
    /\ BothDriven(-1, MAX_MOTOR_SPEED)

\* round(min_speed + m * (max_speed - min_speed)) for a magnitude m in
\* hundredths: the nearest integer (no m of the grid is at a half).
RoundedSpeed(m) ==
    IF m < JOYSTICK_DEAD_ZONE
    THEN 0
    ELSE (2 * (MIN_MOTOR_SPEED * One + m * (MAX_MOTOR_SPEED - MIN_MOTOR_SPEED))
          + One) \div (2 * One)

\* C18: the duty cycle the speed mapping returns for a magnitude m is 0 when
\* m is below the dead zone and else min_speed + m * (max_speed - min_speed)
\* rounded to the nearest integer; seen on the duty cycles a dual command
\* passes to the motors for the magnitudes of its two values.
C18_SpeedMappingRounds ==
    (ctl.type = "dual" /\ InRange(ctl.a) /\ InRange(ctl.b))
        => /\ ctl.args.left_pwm = RoundedSpeed(Abs(DeadZone(Clamp(ctl.a))))
           /\ ctl.args.right_pwm = RoundedSpeed(Abs(DeadZone(Clamp(ctl.b))))

\* C19: for an accepted joystick input (x, y) that the dead zone does not
\* suppress to (0, 0), with x and y as the dead zone leaves them, the left
\* motor gets the sign of clamp(y - x) as direction and the speed mapping of
\* its magnitude as duty, the right motor the same of clamp(y + x); and the
\* input (0.5, 0.8) gives left Forward at 58 and right Forward at 100, on
\* the arguments and, when the call has returned, on the pins.
C19_JoystickMixing ==
    ctl.type = "control" =>
        LET x == DeadZone(ctl.a)
            y == DeadZone(ctl.b)
            left == IF y - x > One THEN One
                    ELSE IF y - x < -One THEN -One ELSE y - x
            right == IF y + x > One THEN One
                     ELSE IF y + x < -One THEN -One ELSE y + x
        IN  /\ (x /= 0 \/ y /= 0)
                => /\ ctl.args.left_direction = Direction(left)
                   /\ ctl.args.left_pwm = map_speed(Abs(left))
                   /\ ctl.args.right_direction = Direction(right)
                   /\ ctl.args.right_pwm = map_speed(Abs(right))
            /\ (ctl.a = 50 /\ ctl.b = 80)
                => /\ ctl.args = [left_direction |-> 1, left_pwm |-> 58,
                                  right_direction |-> 1, right_pwm |-> 100]
                   /\ (ctl.pc = "idle" /\ GPIO_AVAILABLE)
                          => /\ pins = [A1 |-> "HIGH", A2 |-> "LOW",
                                        B1 |-> "HIGH", B2 |-> "LOW"]
                             /\ duty = [A |-> 58, B |-> 100]

\* The input (0.5, 0.8) has been applied to a car that drove full ahead.
C19_Witness ==
    /\ GPIO_AVAILABLE
    /\ ctl.type = "control" /\ ctl.a = 50 /\ ctl.b = 80 /\ ctl.pc = "idle"
    /\ duty = [A |-> 58, B |-> 100]

\* A GPIO write of a stop() call: of the watchdog's, of handle_disconnect's
\* or of a control command that resolved to Stop.
StopWrite ==
    \/ wd_pc /= "idle" /\ wd_pc' /= wd_pc
    \/ ctl.pc /= "idle" /\ ctl.args = StopArgs /\ ctl'.pc /= ctl.pc

\* C20: Stop is idempotent on the motor output: when both motors are
\* stopped, no GPIO write of a further stop() changes a direction pin or a
\* duty cycle; and whenever stop() calls, however many, have returned with
\* no command running, the output is the stopped one.
C20_StopIdempotent ==
    /\ [][(MotorsStopped /\ StopWrite) => (pins' = pins /\ duty' = duty)]_vars
    /\ []((ctl.pc = "idle" /\ ctl.type = "disconnect" /\ wd_pc = "idle")
             => MotorsStopped)

\* With GPIO, a driving command was stopped by the watchdog, the watchdog
\* has stopped again since (its second Stop after the command), and a
\* disconnect's stop() has returned after that: the outputs are the stopped
\* ones.
C20_Witness ==
    /\ GPIO_AVAILABLE
    /\ ctl.pc = "idle" /\ ctl.type = "disconnect" /\ wd_pc = "idle"
    /\ last_command_time > 0
    /\ last_wd_stop - last_command_time > AUTO_STOP_TIMEOUT + WATCHDOG_PERIOD
    /\ MotorsStopped

\* C25: for every in-range joystick or dual input, a motor that is passed
\* direction Forward or Backward is passed a duty cycle of at least
\* MIN_MOTOR_SPEED, never 0.
C25_MovingDirectionHasMinDuty ==
    (Accepted /\ InRange(ctl.a) /\ InRange(ctl.b))
        => /\ ctl.args.left_direction /= 0
                  => ctl.args.left_pwm >= MIN_MOTOR_SPEED
           /\ ctl.args.right_direction /= 0
                  => ctl.args.right_pwm >= MIN_MOTOR_SPEED

\* C26: in dual-lever mode the left motor's (direction, duty) depends on
\* the left value only and the right motor's on the right value only: what
\* a dual command passes to a motor is what the call with the same value on
\* that side and any other value on the other side passes to it.
C26_DualNoCrossMixing ==
    ctl.type = "dual" =>
        \A other \in MixVals :
            /\ MixDual(ctl.a, other).left_direction = ctl.args.left_direction
            /\ MixDual(ctl.a, other).left_pwm = ctl.args.left_pwm
            /\ MixDual(other, ctl.b).right_direction = ctl.args.right_direction
            /\ MixDual(other, ctl.b).right_pwm = ctl.args.right_pwm

\* Dual (0.8, -0.1): the right lever is in the dead zone, the left motor is
\* driven Forward at 88 all the same and the right one is stopped.
C26_Witness ==
    /\ GPIO_AVAILABLE
    /\ ctl.type = "dual" /\ ctl.a = 80 /\ ctl.b = -10 /\ ctl.pc = "idle"
    /\ pins = [A1 |-> "HIGH", A2 |-> "LOW", B1 |-> "LOW", B2 |-> "LOW"]
    /\ duty = [A |-> 88, B |-> 0]

\* Motor A's (B's) outputs are those of an actuation with direction d and
\* duty p, no inversion being configured.
MotorAShows(d, p) ==
    /\ pins.A1 = Level(d = 1) /\ pins.A2 = Level(d = -1)
    /\ duty.A = IF d /= 0 THEN p ELSE 0

MotorBShows(d, p) ==
    /\ pins.B1 = Level(d = 1) /\ pins.B2 = Level(d = -1)
    /\ duty.B = IF d /= 0 THEN p ELSE 0

\* C27: when a call of _set_motor_a or _set_motor_b returns, the motor's pins
\* and duty cycle are those of the call's direction and duty; and when no
\* call is running, a motor whose pins are (LOW, LOW) has duty cycle 0.
C27_ActuationPattern ==
    /\ [][(GPIO_AVAILABLE /\ ctl.pc = "Apwm" /\ ctl'.pc /= ctl.pc)
             => MotorAShows(ctl.args.left_direction, ctl.args.left_pwm)']_vars
    /\ [][(GPIO_AVAILABLE /\ ctl.pc = "Bpwm" /\ ctl'.pc /= ctl.pc)
             => MotorBShows(ctl.args.right_direction, ctl.args.right_pwm)']_vars
    /\ [][(GPIO_AVAILABLE /\ wd_pc = "Apwm" /\ wd_pc' /= wd_pc)
             => MotorAShows(0, 0)']_vars
    /\ [][(GPIO_AVAILABLE /\ wd_pc = "Bpwm" /\ wd_pc' /= wd_pc)
             => MotorBShows(0, 0)']_vars
    /\ []((ctl.pc = "idle" /\ wd_pc = "idle")
            => /\ (pins.A1 = "LOW" /\ pins.A2 = "LOW") => duty.A = 0
               /\ (pins.B1 = "LOW" /\ pins.B2 = "LOW") => duty.B = 0)

\* C28: a Stop of the watchdog never overwrites the outputs of a command
\* whose time stamp is within the timeout: a GPIO write of the watchdog's
\* stop() that changes a pin or a duty cycle happens only while
\* now - last_command_time > AUTO_STOP_TIMEOUT.
C28_StopFollowsTimestampOrder ==
    [][(wd_pc /= "idle" /\ wd_pc' /= wd_pc
            /\ (pins' /= pins \/ duty' /= duty))
          => now - last_command_time > AUTO_STOP_TIMEOUT]_vars

\* The outputs of both motors are those a command with arguments m leaves.
OutputsOf(m) ==
    /\ MotorAShows(m.left_direction, m.left_pwm)
    /\ MotorBShows(m.right_direction, m.right_pwm)

\* C29: when a control command and the watchdog's Stop have both finished,
\* the two motors' outputs are both the command's or both Stop.
C29_ConsistentPair ==
    (GPIO_AVAILABLE /\ Accepted /\ ctl.pc = "idle" /\ wd_pc = "idle")
        => (OutputsOf(ctl.args) \/ MotorsStopped)

\* C30: a disconnect is handled whenever no other handler runs, whatever
\* the last command was; its handler passes Stop to both motors at once, no
\* step of it changes last_command_time, and when it returns both motors
\* are stopped.
C30_DisconnectStops ==
    /\ [](ctl.pc = "idle" => ENABLED handle_disconnect)
    /\ [][(ctl.pc = "idle" /\ ctl' /= ctl /\ ctl'.type = "disconnect")
             => /\ ctl'.args = StopArgs
                /\ ctl'.pc = "A1"
                /\ now' = now]_vars
    /\ [][(ctl'.type = "disconnect" /\ ctl' /= ctl)
             => last_command_time' = last_command_time]_vars
    /\ [][(ctl.type = "disconnect" /\ ctl.pc /= "idle" /\ ctl'.pc = "idle")
             => MotorsStopped']_vars

\* A disconnect is being handled some time after a command drove both
\* motors at 88, which the watchdog has not stopped: motor A is stopped
\* already, motor B is still driven, last_command_time is the command's.
C30_Witness ==
    /\ GPIO_AVAILABLE
    /\ ctl.type = "disconnect" /\ ctl.pc = "B1"
    /\ pins = [A1 |-> "LOW", A2 |-> "LOW", B1 |-> "HIGH", B2 |-> "LOW"]
    /\ duty = [A |-> 0, B |-> 88]
    /\ last_command_time > 0
    /\ now > last_command_time
    /\ last_wd_stop < last_command_time

=============================================================================
